---------------------------- MODULE Spec2Model ----------------------------
(***************************************************************************)
(* Model of scripts/fetch_data.py: the incremental fetch of Boston 311     *)
(* service requests and the reconciliation of the fetched records with the *)
(* CSV snapshot kept between runs.                                         *)
(*                                                                         *)
(* The remote dataset (the CKAN DataStore) is the environment: it is a     *)
(* sequence of JSON records that grows and whose records change state      *)
(* between and during runs.  One run of main() is a sequence of steps: the *)
(* read of the snapshot, the network requests (each one step, succeeding   *)
(* or failing), and the reconciliation and write.                          *)
(*                                                                         *)
(* Values of record fields are strings; JSON null (Python None) is the     *)
(* reserved string None, and a key a record does not have is absent from   *)
(* the record's DOMAIN.  Python compares open_date strings                 *)
(* lexicographically: Rank gives that order on the strings used.           *)
(***************************************************************************)
EXTENDS Integers, Sequences, FiniteSets, TLC

-----------------------------------------------------------------------------
(* Bounds of the model *)

MaxChanges == 2     \* changes of the remote dataset in a behaviour
MaxRuns == 2        \* runs of main() in a behaviour

(* Program constants.  PAGE_SIZE is 1000 in the source; it is scaled down  *)
(* so that a dataset of MaxChanges records spans more than one page.       *)
PAGE_SIZE == 1
MAX_RETRIES == 3

-----------------------------------------------------------------------------
(* Values *)

None == "None"                  \* Python None / JSON null
D1 == "2024-01-01"
D2 == "2024-02-01"
Missing == "<missing>"          \* generator only: the record has no such key

\* FIELDS, restricted to the fields the program's logic reads (case_id,
\* open_date) and one of the 24 fields it only copies (case_status).
FIELDS == {"case_id", "open_date", "case_status"}

\* Lexicographic order of the strings that occur as open_date.
Rank(s) == CASE s = "" -> 0
             [] s = D1 -> 1
             [] s = D2 -> 2

\* dict.get(k, default)
Get(r, k, default) == IF k \in DOMAIN r THEN r[k] ELSE default

\* {k: (r.get(k) or "") for k in FIELDS}
Normalise(r) ==
    [k \in FIELDS |-> LET v == Get(r, k, None)
                      IN IF v = None \/ v = "" THEN "" ELSE v]

NormaliseAll(recs) == [i \in 1..Len(recs) |-> Normalise(recs[i])]

\* r.get("case_id", "")
CaseId(r) == Get(r, "case_id", "")

\* r.get("open_date", "")
OpenDate(r) == Get(r, "open_date", "")

-----------------------------------------------------------------------------
(* list.sort(key=...): a stable sort, ascending by key *)

\* keys[i] is the key of s[i].  The position of s[i] in the sorted sequence:
\* behind every element with a smaller key and every earlier element with the
\* same key.
StableSort(s, keys) ==
    LET Before(i) == Cardinality({m \in 1..Len(s) :
                         \/ keys[m] < keys[i]
                         \/ keys[m] = keys[i] /\ m < i})
    IN [j \in 1..Len(s) |-> s[CHOOSE i \in 1..Len(s) : Before(i) = j - 1]]

RowKey(r) == Rank(OpenDate(r))

\* A variant without the sort.
SortRowsNone(rows) == rows

\* all_rows.sort(key=lambda r: r.get("open_date", ""))
SortRows(rows) == StableSort(rows, [i \in 1..Len(rows) |-> RowKey(rows[i])])

-----------------------------------------------------------------------------
(* read_existing_csv *)

\* csv.DictReader over a file write_csv wrote: every row has every field of
\* FIELDS, as text.
ReadRows(exists, rows) == IF exists THEN rows ELSE <<>>

\* case_ids: the set of row.get("case_id", "")
CaseIds(rows) == {CaseId(rows[i]) : i \in 1..Len(rows)}

\* A variant without the comparison: the first non-empty open_date is kept.
LatestDateFirst(rows) ==
    LET dated == {i \in 1..Len(rows) : OpenDate(rows[i]) # ""}
    IN IF dated = {} THEN None
       ELSE OpenDate(rows[CHOOSE i \in dated : \A m \in dated : i <= m])

\* latest_date: the largest non-empty open_date, None when there is none
LatestDate(rows) ==
    LET ds == {OpenDate(rows[i]) : i \in 1..Len(rows)} \ {""}
    IN IF ds = {} THEN None
       ELSE CHOOSE d \in ds : \A e \in ds : Rank(e) <= Rank(d)

-----------------------------------------------------------------------------
(* update_existing_rows, and the merge of main *)

\* new_by_id: the keys, and the record each key maps to (the last one wins)
NewByIdKeys(recs, ids) == {CaseId(recs[i]) : i \in 1..Len(recs)} \cap ids

NewById(recs, cid) ==
    recs[CHOOSE i \in 1..Len(recs) :
            /\ CaseId(recs[i]) = cid
            /\ \A m \in 1..Len(recs) : CaseId(recs[m]) = cid => m <= i]

\* A variant that leaves every row as it was read.
update_existing_rows_stale(rows, recs, ids) == rows

update_existing_rows(rows, recs, ids) ==
    LET keys == NewByIdKeys(recs, ids)
    IN IF keys = {} THEN rows
       ELSE [i \in 1..Len(rows) |->
                IF CaseId(rows[i]) \in keys
                THEN Normalise(NewById(recs, CaseId(rows[i])))
                ELSE rows[i]]

\* A variant without the filter: every fetched record is appended.
TrulyNewAll(recs, ids) == recs

\* truly_new = [r for r in new_records if r.get("case_id", "") not in existing_ids]
TrulyNew(recs, ids) ==
    LET IsNew(r) == CaseId(r) \notin ids
    IN SelectSeq(recs, IsNew)

\* A variant that keeps the fetched records only.
AllRowsFreshOnly(rows, recs, ids) == SortRows(NormaliseAll(recs))

\* main, steps 4 to 6: all_rows after the sort
AllRows(rows, recs, ids) ==
    LET updated == IF rows # <<>> THEN update_existing_rows(rows, recs, ids)
                   ELSE rows
    IN SortRows(updated \o NormaliseAll(TrulyNew(recs, ids)))

\* write_csv: the rows the file holds afterwards
write_csv(records) == NormaliseAll(records)

\* write_metadata: last_updated is the time of the write, here the run number
write_metadata(total_records, new_count, now) ==
    [last_updated |-> now, total_records |-> total_records,
     new_records_added |-> new_count]

-----------------------------------------------------------------------------
(* The remote service *)

\* sort = "open_date asc": nulls last
ServerKey(r) == IF r.open_date = None THEN 3 ELSE Rank(r.open_date)

ServerSorted(data) ==
    StableSort(data, [i \in 1..Len(data) |-> ServerKey(data[i])])

\* datastore_search with limit PAGE_SIZE at an offset: {records, total}
SearchPage(data, off) ==
    LET sorted == ServerSorted(data)
        last == IF off + PAGE_SIZE < Len(sorted) THEN off + PAGE_SIZE
                ELSE Len(sorted)
    IN [records |-> SubSeq(sorted, off + 1, last), total |-> Len(data)]

\* datastore_search_sql: WHERE open_date > last_date ORDER BY open_date ASC
SearchSql(data, last_date) ==
    LET Newer(r) == r.open_date # None /\ Rank(r.open_date) > Rank(last_date)
    IN SelectSeq(ServerSorted(data), Newer)

\* The records the remote dataset can come to hold.
CaseIdValues == {"A", "B", None, Missing}
OpenDateValues == {D1, D2, None}

ApiRecord(cid, od) ==
    IF cid = Missing
    THEN [open_date |-> od, case_status |-> "Open", row_id |-> "1"]
    ELSE [case_id |-> cid, open_date |-> od, case_status |-> "Open",
          row_id |-> "1"]

-----------------------------------------------------------------------------
VARIABLES
    remote,         \* the remote dataset: a sequence of records
    changes,        \* how often the remote dataset has changed
    csv_exists,     \* boston_311_requests.csv exists
    csv_rows,       \* its rows
    meta_exists,    \* metadata.json exists
    meta,           \* its content
    pc,             \* where the run is: idle, sql, page, main, done
    runs,           \* runs started so far
    existing_rows, existing_ids, latest_date,   \* main's locals
    new_records,
    all_records, offset, total, retry,          \* fetch_records_after's locals
    exit_status,    \* the status of the run that ended (pc = "done")
    \* history, read by the properties only
    before,         \* the files as they were when the run started
    sql,            \* the run's incremental query: none, ok, failed
    sql_attempts,   \* incremental queries sent in the run
    stable,         \* the remote dataset has not changed since the run began
    exhausted,      \* a page request of the run used up its retries
    csv_writes,     \* calls of write_csv in the run
    outcome,        \* the branch main took: written, uptodate, empty
    last_fetch,     \* the fresh records of the latest run that wrote the file
    repeat          \* the run that ended wrote with the same fresh records
                    \* as the write before it

vars == <<remote, changes, csv_exists, csv_rows, meta_exists, meta, pc, runs,
          existing_rows, existing_ids, latest_date, new_records, all_records,
          offset, total, retry, exit_status, before, sql, sql_attempts,
          stable, exhausted, csv_writes, outcome, last_fetch, repeat>>

files == <<csv_exists, csv_rows, meta_exists, meta>>
env == <<remote, changes>>
locals == <<existing_rows, existing_ids, latest_date>>
fetch == <<all_records, offset, total, retry>>
hist == <<before, sql, sql_attempts, exhausted, csv_writes, outcome, last_fetch,
          repeat>>

NoMeta == [last_updated |-> 0, total_records |-> 0, new_records_added |-> 0]
NoFetch == [valid |-> FALSE, records |-> <<>>]

Init ==
    /\ remote = <<>>
    /\ changes = 0
    /\ csv_exists = FALSE
    /\ csv_rows = <<>>
    /\ meta_exists = FALSE
    /\ meta = NoMeta
    /\ pc = "idle"
    /\ runs = 0
    /\ existing_rows = <<>>
    /\ existing_ids = {}
    /\ latest_date = None
    /\ new_records = <<>>
    /\ all_records = <<>>
    /\ offset = 0
    /\ total = -1
    /\ retry = 0
    /\ exit_status = 0
    /\ before = [csv_exists |-> FALSE, csv_rows |-> <<>>,
                 meta_exists |-> FALSE, meta |-> NoMeta]
    /\ sql = "none"
    /\ sql_attempts = 0
    /\ stable = TRUE
    /\ exhausted = FALSE
    /\ csv_writes = 0
    /\ outcome = "none"
    /\ last_fetch = NoFetch
    /\ repeat = FALSE

-----------------------------------------------------------------------------
(* The environment: the remote dataset changes at any time *)

\* A new service request is opened.
RemoteAdd ==
    /\ changes < MaxChanges
    /\ \E cid \in CaseIdValues, od \in OpenDateValues :
          remote' = Append(remote, ApiRecord(cid, od))
    /\ changes' = changes + 1
    /\ stable' = (stable /\ pc = "idle")
    /\ UNCHANGED <<files, pc, runs, locals, new_records, fetch, exit_status,
                   hist>>

\* A service request changes state: Open -> Closed.
RemoteClose ==
    /\ changes < MaxChanges
    /\ \E i \in 1..Len(remote) :
          /\ remote[i].case_status = "Open"
          /\ remote' = [remote EXCEPT ![i].case_status = "Closed"]
    /\ changes' = changes + 1
    /\ stable' = (stable /\ pc = "idle")
    /\ UNCHANGED <<files, pc, runs, locals, new_records, fetch, exit_status,
                   hist>>

-----------------------------------------------------------------------------
(* One run of main() *)

\* The snapshot the run started from, as read_existing_csv read it.
Prior == ReadRows(before.csv_exists, before.csv_rows)

\* main, step 1: read_existing_csv; then fetch_records_after up to its
\* first request.
ReadExisting ==
    /\ pc \in {"idle", "done"}
    /\ runs < MaxRuns
    /\ runs' = runs + 1
    /\ existing_rows' = ReadRows(csv_exists, csv_rows)
    /\ existing_ids' = CaseIds(existing_rows')
    /\ latest_date' = LatestDate(existing_rows')
    /\ new_records' = <<>>
    /\ all_records' = <<>>
    /\ offset' = 0
    /\ total' = -1
    /\ retry' = 0
    /\ pc' = IF latest_date' # None THEN "sql" ELSE "page"
    /\ exit_status' = 0
    /\ before' = [csv_exists |-> csv_exists, csv_rows |-> csv_rows,
                  meta_exists |-> meta_exists, meta |-> meta]
    /\ sql' = "none"
    /\ sql_attempts' = 0
    /\ stable' = TRUE
    /\ exhausted' = FALSE
    /\ csv_writes' = 0
    /\ outcome' = "none"
    /\ repeat' = FALSE
    /\ UNCHANGED <<env, files, last_fetch>>

\* The incremental query answers with success: its records are returned.
SqlSuccess ==
    /\ pc = "sql"
    /\ all_records' = SearchSql(remote, latest_date)
    /\ new_records' = all_records'
    /\ pc' = "main"
    /\ sql' = "ok"
    /\ sql_attempts' = sql_attempts + 1
    /\ UNCHANGED <<env, files, runs, locals, offset, total, retry,
                   exit_status, before, stable, exhausted, outcome,
                   last_fetch, repeat,
                   csv_writes>>

\* A variant in which the failure of the incremental query ends the run.
SqlFailureAborts ==
    /\ pc = "sql"
    /\ sql' = "failed"
    /\ sql_attempts' = sql_attempts + 1
    /\ pc' = "done"
    /\ exit_status' = 1
    /\ UNCHANGED <<env, files, runs, locals, new_records, fetch, before,
                   stable, exhausted, outcome, last_fetch, repeat,
                   csv_writes>>

\* The incremental query raises, or answers without a true success flag: the
\* function goes on to the full pagination.
SqlFailure ==
    /\ pc = "sql"
    /\ \E kind \in {"error", "unsuccessful"} : sql' = "failed"
    /\ sql_attempts' = sql_attempts + 1
    /\ pc' = "page"
    /\ UNCHANGED <<env, files, runs, locals, new_records, fetch, exit_status,
                   before, stable, exhausted, outcome, last_fetch, repeat,
                   csv_writes>>

\* A variant whose loop ends on a short page only.
PageSuccessShortOnly ==
    /\ pc = "page"
    /\ LET result == SearchPage(remote, offset)
           records == result.records
       IN /\ total' = IF total = -1 THEN result.total ELSE total
          /\ all_records' = all_records \o records
          /\ IF Len(records) < PAGE_SIZE
             THEN /\ pc' = "main"
                  /\ new_records' = all_records'
                  /\ offset' = offset
             ELSE /\ pc' = "page"
                  /\ new_records' = new_records
                  /\ offset' = offset + PAGE_SIZE
    /\ retry' = 0
    /\ UNCHANGED <<env, files, runs, locals, exit_status, before, sql,
                   sql_attempts, stable, exhausted, outcome, last_fetch,
                   repeat, csv_writes>>

\* fetch_page(offset) returns a result; the rest of the loop body.
PageSuccess ==
    /\ pc = "page"
    /\ LET result == SearchPage(remote, offset)
           records == result.records
       IN /\ total' = IF total = -1 THEN result.total ELSE total
          /\ all_records' = all_records \o records
          /\ IF Len(records) < PAGE_SIZE \/ Len(all_records') >= total'
             THEN /\ pc' = "main"
                  /\ new_records' = all_records'
                  /\ offset' = offset
             ELSE /\ pc' = "page"
                  /\ new_records' = new_records
                  /\ offset' = offset + PAGE_SIZE
    /\ retry' = 0
    /\ UNCHANGED <<env, files, runs, locals, exit_status, before, sql,
                   sql_attempts, stable, exhausted, outcome, last_fetch,
                   repeat,
                   csv_writes>>

\* A variant whose test lets one retry too many through.
PageRetryOneMore ==
    /\ pc = "page"
    /\ retry <= MAX_RETRIES
    /\ retry' = retry + 1
    /\ UNCHANGED <<env, files, pc, runs, locals, new_records, all_records,
                   offset, total, exit_status, hist, stable>>

\* An attempt of fetch_page fails (a transport error, or a response without a
\* true success flag: both are raised into the same except clause) and
\* retries are left: the same offset again.
PageRetry ==
    /\ pc = "page"
    /\ \E kind \in {"error", "unsuccessful"} : retry < MAX_RETRIES
    /\ retry' = retry + 1
    /\ UNCHANGED <<env, files, pc, runs, locals, new_records, all_records,
                   offset, total, exit_status, hist, stable>>

\* A variant that swallows the last failure and returns what was fetched.
PageExhaustedSwallowed ==
    /\ pc = "page"
    /\ retry >= MAX_RETRIES
    /\ exhausted' = TRUE
    /\ pc' = "main"
    /\ new_records' = all_records
    /\ UNCHANGED <<env, files, runs, locals, fetch, exit_status, before, sql,
                   sql_attempts, stable, outcome, last_fetch, repeat,
                   csv_writes>>

\* An attempt of fetch_page fails and no retry is left: the exception leaves
\* fetch_page, fetch_records_after and main, and the interpreter exits with 1.
PageExhausted ==
    /\ pc = "page"
    /\ \E kind \in {"error", "unsuccessful"} : retry >= MAX_RETRIES
    /\ exhausted' = TRUE
    /\ pc' = "done"
    /\ exit_status' = 1
    /\ UNCHANGED <<env, files, runs, locals, new_records, fetch, before, sql,
                   sql_attempts, stable, outcome, last_fetch, repeat,
                   csv_writes>>

\* A variant without the check: the run goes on to the up-to-date branch.
MainFatalEmptyUnchecked ==
    /\ pc = "main"
    /\ new_records = <<>> /\ existing_rows = <<>>
    /\ meta_exists' = TRUE
    /\ meta' = write_metadata(Len(existing_rows), 0, runs)
    /\ pc' = "done"
    /\ exit_status' = 0
    /\ outcome' = "empty"
    /\ UNCHANGED <<env, csv_exists, csv_rows, runs, locals, new_records,
                   fetch, before, sql, sql_attempts, stable, exhausted,
                   last_fetch, repeat,
                   csv_writes>>

\* main: nothing fetched and nothing on disk: sys.exit(1)
MainFatalEmpty ==
    /\ pc = "main"
    /\ new_records = <<>> /\ existing_rows = <<>>
    /\ pc' = "done"
    /\ exit_status' = 1
    /\ outcome' = "empty"
    /\ UNCHANGED <<env, files, runs, locals, new_records, fetch, before, sql,
                   sql_attempts, stable, exhausted, last_fetch, repeat,
                   csv_writes>>

\* A variant that treats "nothing fetched" as an error.
MainUpToDateFails ==
    /\ pc = "main"
    /\ new_records = <<>> /\ existing_rows # <<>>
    /\ meta_exists' = TRUE
    /\ meta' = write_metadata(Len(existing_rows), 0, runs)
    /\ pc' = "done"
    /\ exit_status' = 1
    /\ outcome' = "uptodate"
    /\ UNCHANGED <<env, csv_exists, csv_rows, runs, locals, new_records,
                   fetch, before, sql, sql_attempts, stable, exhausted,
                   last_fetch, repeat,
                   csv_writes>>

\* A variant that returns without writing the metadata.
MainUpToDateSilent ==
    /\ pc = "main"
    /\ new_records = <<>> /\ existing_rows # <<>>
    /\ pc' = "done"
    /\ exit_status' = 0
    /\ outcome' = "uptodate"
    /\ UNCHANGED <<env, files, runs, locals, new_records, fetch, before, sql,
                   sql_attempts, stable, exhausted, last_fetch, repeat,
                   csv_writes>>

\* main: nothing fetched, rows on disk: the metadata is written, the CSV is not
MainUpToDate ==
    /\ pc = "main"
    /\ new_records = <<>> /\ existing_rows # <<>>
    /\ meta_exists' = TRUE
    /\ meta' = write_metadata(Len(existing_rows), 0, runs)
    /\ pc' = "done"
    /\ exit_status' = 0
    /\ outcome' = "uptodate"
    /\ UNCHANGED <<env, csv_exists, csv_rows, runs, locals, new_records,
                   fetch, before, sql, sql_attempts, stable, exhausted,
                   last_fetch, repeat,
                   csv_writes>>

\* A variant that writes the CSV only when a record is appended.
MainWriteIfNew ==
    /\ pc = "main"
    /\ new_records # <<>>
    /\ LET truly_new == TrulyNew(new_records, existing_ids)
           all_rows == AllRows(existing_rows, new_records, existing_ids)
       IN /\ existing_rows' =
                 IF existing_rows # <<>>
                 THEN update_existing_rows(existing_rows, new_records,
                                           existing_ids)
                 ELSE existing_rows
          /\ csv_exists' = TRUE
          /\ csv_rows' = IF truly_new = <<>> THEN csv_rows
                          ELSE write_csv(all_rows)
          /\ csv_writes' = IF truly_new = <<>> THEN csv_writes
                            ELSE csv_writes + 1
          /\ meta_exists' = TRUE
          /\ meta' = write_metadata(Len(all_rows), Len(truly_new), runs)
    /\ pc' = "done"
    /\ exit_status' = 0
    /\ outcome' = "written"
    /\ repeat' = (last_fetch.valid /\ last_fetch.records = new_records)
    /\ last_fetch' = [valid |-> TRUE, records |-> new_records]
    /\ UNCHANGED <<env, runs, existing_ids, latest_date, new_records, fetch,
                   before, sql, sql_attempts, stable, exhausted>>

\* A variant that counts every fetched record as new.
MainWriteCountsAll ==
    /\ pc = "main"
    /\ new_records # <<>>
    /\ LET truly_new == TrulyNew(new_records, existing_ids)
           all_rows == AllRows(existing_rows, new_records, existing_ids)
       IN /\ existing_rows' =
                 IF existing_rows # <<>>
                 THEN update_existing_rows(existing_rows, new_records,
                                           existing_ids)
                 ELSE existing_rows
          /\ csv_exists' = TRUE
          /\ csv_rows' = write_csv(all_rows)
          /\ meta_exists' = TRUE
          /\ meta' = write_metadata(Len(all_rows), Len(new_records), runs)
    /\ pc' = "done"
    /\ exit_status' = 0
    /\ csv_writes' = csv_writes + 1
    /\ outcome' = "written"
    /\ repeat' = (last_fetch.valid /\ last_fetch.records = new_records)
    /\ last_fetch' = [valid |-> TRUE, records |-> new_records]
    /\ UNCHANGED <<env, runs, existing_ids, latest_date, new_records, fetch,
                   before, sql, sql_attempts, stable, exhausted>>

\* main, steps 3 to 7: classify, update, merge, sort, write
MainWrite ==
    /\ pc = "main"
    /\ new_records # <<>>
    /\ LET truly_new == TrulyNew(new_records, existing_ids)
           all_rows == AllRows(existing_rows, new_records, existing_ids)
       IN /\ existing_rows' =
                 IF existing_rows # <<>>
                 THEN update_existing_rows(existing_rows, new_records,
                                           existing_ids)
                 ELSE existing_rows
          /\ csv_exists' = TRUE
          /\ csv_rows' = write_csv(all_rows)
          /\ meta_exists' = TRUE
          /\ meta' = write_metadata(Len(all_rows), Len(truly_new), runs)
    /\ pc' = "done"
    /\ exit_status' = 0
    /\ csv_writes' = csv_writes + 1
    /\ outcome' = "written"
    /\ repeat' = (last_fetch.valid /\ last_fetch.records = new_records)
    /\ last_fetch' = [valid |-> TRUE, records |-> new_records]
    /\ UNCHANGED <<env, runs, existing_ids, latest_date, new_records, fetch,
                   before, sql, sql_attempts, stable, exhausted>>

Next ==
    \/ RemoteAdd
    \/ RemoteClose
    \/ ReadExisting
    \/ SqlSuccess
    \/ SqlFailure
    \/ PageSuccess
    \/ PageRetry
    \/ PageExhausted
    \/ MainFatalEmpty
    \/ MainUpToDate
    \/ MainWrite

Spec == Init /\ [][Next]_vars

\* Every page request returns: a request that stays possible is answered.
FairSpec == Spec /\ WF_vars(PageSuccess)

-----------------------------------------------------------------------------
(* Properties.  S is the snapshot the run started from (Prior), F the fresh  *)
(* fetch (new_records), and the output is the snapshot on disk after the run *)
(* (csv_rows).                                                               *)

Done == pc = "done"
Wrote == Done /\ outcome = "written"

FreshIds == {CaseId(new_records[i]) : i \in 1..Len(new_records)}

\* The positions of the output rows, and of the fresh records, with key k.
RowsWith(k) == {j \in 1..Len(csv_rows) : csv_rows[j].case_id = k}
FreshWith(k) == {i \in 1..Len(new_records) : CaseId(new_records[i]) = k}

\* The fresh record with key k; the last one when there are several.
LastFresh(k) ==
    new_records[CHOOSE i \in FreshWith(k) : \A m \in FreshWith(k) : m <= i]

FilesUntouched ==
    /\ csv_exists = before.csv_exists
    /\ csv_rows = before.csv_rows
    /\ meta_exists = before.meta_exists
    /\ meta = before.meta

\* C1: no deletion.  Every case_id of the snapshot a run started from is in
\* the snapshot on disk, during and after the run, whether the run wrote,
\* returned early or aborted, and whether or not the fresh fetch holds it.
C1_NoDeletion == CaseIds(Prior) \subseteq CaseIds(csv_rows)

\* A run wrote the snapshot, and a key of S that is not in F is still there.
C1_Witness ==
    /\ Wrote
    /\ \E k \in CaseIds(Prior) : k \notin FreshIds /\ k \in CaseIds(csv_rows)

\* C2: freshness wins.  After a write, for every identity key k in both S and
\* F, every output row with key k is the normalised F record for k (the last
\* one, should F hold several): no field of the S row is kept.
C2_FreshnessWins ==
    Wrote =>
        \A k \in (CaseIds(Prior) \cap FreshIds) \ {""} :
            \A j \in RowsWith(k) : csv_rows[j] = Normalise(LastFresh(k))

\* A run wrote, and a row of S was replaced by a fresh record that differs
\* from it.
C2_Witness ==
    /\ Wrote
    /\ \E k \in (CaseIds(Prior) \cap FreshIds) \ {""} :
          /\ RowsWith(k) # {}
          /\ \A i \in 1..Len(Prior) :
                Prior[i].case_id = k => Prior[i] # Normalise(LastFresh(k))

\* C3: append exactly once.  After a write, for every non-empty key k in F
\* and not in S, the output holds exactly one row with key k, and it is the
\* normalised F record for k.
C3_AppendOnce ==
    Wrote =>
        \A k \in FreshIds \ (CaseIds(Prior) \cup {"", None}) :
            /\ Cardinality(RowsWith(k)) = 1
            /\ \A j \in RowsWith(k) : csv_rows[j] = Normalise(LastFresh(k))

\* C4: idempotence.  A run that starts from the output R of the write before
\* it, and fetches the same F as that write, writes R again.
C4_Idempotence == Wrote /\ repeat => csv_rows = Prior

\* The record of the remote dataset with key k, when there is exactly one.
RemoteWith(k) == {i \in 1..Len(remote) : CaseId(remote[i]) = k}

\* C5: refresh of changed records.  After a successful run from a non-empty
\* snapshot, with the remote dataset as it was when the run began, every row
\* of the snapshot whose key names one remote record carries that record's
\* current values.
C5_Refresh ==
    Done /\ exit_status = 0 /\ Prior # <<>> /\ stable =>
        \A k \in CaseIds(Prior) \ {""} :
            Cardinality(RemoteWith(k)) = 1 =>
                \A j \in RowsWith(k), i \in RemoteWith(k) :
                    csv_rows[j] = Normalise(remote[i])

\* C6: fallback.  Once the incremental query of a run has failed, it was sent
\* once and is not sent again; the run is in the full pagination or past it,
\* and it ends only through main or through a page request that used up its
\* retries; the pagination starts at offset 0 and, with the remote dataset
\* unchanged, returns the whole dataset, unfiltered, in the server's order.
C6_Fallback ==
    /\ sql_attempts <= 1
    /\ sql = "failed" =>
          /\ sql_attempts = 1
          /\ pc \in {"page", "main", "done"}
          /\ Done /\ ~exhausted => outcome # "none"
          /\ pc = "page" /\ stable =>
                all_records = SubSeq(ServerSorted(remote), 1, offset)
          /\ pc = "main" /\ stable => new_records = ServerSorted(remote)

\* The fallback returned a dataset of more than one page, holding a record
\* the incremental query would have left out.
C6_Witness ==
    /\ sql = "failed" /\ pc = "main" /\ stable
    /\ Len(new_records) > PAGE_SIZE
    /\ new_records # SearchSql(remote, latest_date)

\* C7: fatal-empty.  A run that fetched nothing and started from no rows ends
\* with a non-zero status and leaves both files as they were; the snapshot
\* file never exists without rows.
C7_FatalEmpty ==
    /\ csv_exists => csv_rows # <<>>
    /\ Done /\ ~exhausted /\ Prior = <<>> /\ new_records = <<>> =>
          /\ exit_status # 0
          /\ FilesUntouched
          /\ ~csv_exists /\ ~meta_exists

\* The fetch returned no record on a first run, and main rejected it.
C7_Witness == Done /\ outcome = "empty" /\ total = 0 /\ exit_status = 1

\* C8: nothing is persisted on a fatal fetch.  When a page request has used
\* up its retries the run has ended, with a non-zero status, without taking
\* any branch of main, and both files are what they were before the run.
C8_NoStateOnFatalFetch ==
    exhausted =>
        /\ Done
        /\ exit_status # 0
        /\ outcome = "none"
        /\ FilesUntouched

\* A page request of the fallback pagination used up its retries, with a
\* snapshot and its metadata on disk.
C8_Witness ==
    /\ exhausted /\ sql = "failed"
    /\ csv_exists /\ meta_exists /\ retry = MAX_RETRIES

\* C9, as stated: a run ends with a non-zero status exactly when neither the
\* network nor the snapshot gave a record; whenever the snapshot has rows the
\* status is zero.
C9_Original ==
    Done => (exit_status # 0 <=> (Prior = <<>> /\ new_records = <<>>))

\* C9, amended: a run ends with a non-zero status exactly when a page request
\* used up its retries (whatever the snapshot holds) or when the fetch
\* returned no record and the snapshot has no rows; otherwise with zero.
C9_ExitStatus ==
    Done =>
        (exit_status # 0 <=>
            (exhausted \/ (Prior = <<>> /\ new_records = <<>>)))

\* A run that started from a snapshot with a dated, identified row ended with
\* a non-zero status, in the pagination its failed incremental query led to.
C9_Witness ==
    /\ Done /\ exit_status # 0 /\ sql = "failed"
    /\ \E i \in 1..Len(Prior) :
          Prior[i].case_id = "A" /\ Prior[i].open_date = D1

\* C10: up-to-date run.  A run whose fetch returned no record and that
\* started from a snapshot with rows ends with status zero, leaves the
\* snapshot rows as they were, and writes metadata with this run's time,
\* total_records the number of those rows and new_records_added 0.
C10_UpToDate ==
    Done /\ ~exhausted /\ new_records = <<>> /\ Prior # <<>> =>
        /\ exit_status = 0
        /\ csv_exists /\ csv_rows = Prior
        /\ meta_exists
        /\ meta.last_updated = runs
        /\ meta.total_records = Len(Prior)
        /\ meta.new_records_added = 0

\* An up-to-date run replaced the metadata of the write before it.
C10_Witness ==
    /\ Done /\ outcome = "uptodate"
    /\ before.meta_exists /\ meta # before.meta

\* How often row r occurs in a sequence of rows.
Count(rows, r) == Cardinality({i \in 1..Len(rows) : rows[i] = r})

\* The fresh records without an identity key: case_id missing, empty or null.
FreshKeyless == {i \in 1..Len(new_records) : CaseId(new_records[i]) \in {"", None}}

\* The fresh records whose key is not a key of S.
FreshNotInPrior ==
    {i \in 1..Len(new_records) : CaseId(new_records[i]) \notin CaseIds(Prior)}

\* C11: empty identity key.  After a write, every fresh record without a
\* case_id was appended (all of them are counted as new), and every row of S
\* with an empty case_id is in the output as it was.
C11_EmptyKey ==
    Wrote =>
        /\ meta.new_records_added >= Cardinality(FreshKeyless)
        /\ \A i \in 1..Len(Prior) :
              Prior[i].case_id = "" =>
                  Count(csv_rows, Prior[i]) >= Count(Prior, Prior[i])

\* C12: retained rows are untouched.  After a successful run, every row of S
\* whose case_id matches no fresh record is in the output with every field as
\* it was (as often as in S), and the output has as many rows as S plus the
\* fresh records whose key is not in S.
C12_Retained ==
    Done /\ exit_status = 0 =>
        /\ \A i \in 1..Len(Prior) :
              CaseId(Prior[i]) \notin FreshIds =>
                  Count(csv_rows, Prior[i]) >= Count(Prior, Prior[i])
        /\ Len(csv_rows) = Len(Prior) + Cardinality(FreshNotInPrior)

\* A run wrote: one row of S matched a fresh record, another matched none and
\* was kept, or a record was appended next to a kept row.
C12_Witness ==
    /\ Wrote
    /\ \E i \in 1..Len(Prior) : CaseId(Prior[i]) \notin FreshIds
    /\ FreshNotInPrior # {}
    /\ Len(csv_rows) > Len(Prior)

\* The rows before the sort: the rows of S in their order, each replaced by
\* its fresh record if it has one, then the fresh records with a key that is
\* not in S, in fetch order.
PreSort ==
    LET kept == [i \in 1..Len(Prior) |->
                    IF CaseId(Prior[i]) \in FreshIds
                    THEN Normalise(LastFresh(CaseId(Prior[i])))
                    ELSE Prior[i]]
        NotInPrior(r) == CaseId(r) \notin CaseIds(Prior)
    IN kept \o NormaliseAll(SelectSeq(new_records, NotInPrior))

\* The rows of a sequence with open_date d, in their order.
WithDate(rows, d) ==
    LET Has(r) == r.open_date = d
    IN SelectSeq(rows, Has)

\* C13: ordering.  The rows on disk are non-decreasing by open_date, the empty
\* open_date first; after a write, the rows with one open_date are, in the
\* same order, the rows with that open_date before the sort.
C13_Ordering ==
    /\ \A i, j \in 1..Len(csv_rows) :
          i < j => Rank(csv_rows[i].open_date) <= Rank(csv_rows[j].open_date)
    /\ Wrote => \A d \in {"", D1, D2} :
                    WithDate(csv_rows, d) = WithDate(PreSort, d)

\* The sort moved an appended row with an empty open_date in front of a row
\* of S.
C13_Witness ==
    /\ Wrote
    /\ csv_rows # PreSort
    /\ Len(Prior) > 0
    /\ csv_rows[1].open_date = ""

\* C14: bounded retry.  A failed attempt of a page request is followed by
\* another attempt at the same offset, with nothing else changed, and the
\* retries of one request never exceed MAX_RETRIES; an attempt that succeeds
\* ends the retries of its request; the failure leaves the run only when the
\* first attempt and MAX_RETRIES retries have failed, and then the run is over.
C14_BoundedRetry ==
    [][ /\ retry' > retry =>
              /\ pc = "page" /\ pc' = "page"
              /\ retry' = retry + 1
              /\ retry' <= MAX_RETRIES
              /\ offset' = offset /\ all_records' = all_records
              /\ total' = total
        /\ (pc = "page" /\ (all_records' # all_records \/ pc' = "main"
                            \/ offset' # offset)) => retry' = 0
        /\ (exhausted' /\ ~exhausted) =>
              /\ pc = "page" /\ retry = MAX_RETRIES
              /\ pc' = "done" /\ exit_status' # 0
              /\ retry' = retry
        /\ (pc = "done" /\ pc' = "done") => retry' = retry
      ]_vars

\* The request of a later page is at its last retry.
C14_Witness == pc = "page" /\ retry = MAX_RETRIES /\ offset > 0

\* The page a step of the pagination fetched: what it added to all_records.
FetchedPage == SubSeq(all_records', Len(all_records) + 1, Len(all_records'))

\* A step in which a page request returned its result.
PageReturned ==
    /\ pc = "page"
    /\ pc' = "main" \/ offset' # offset

C15_Terminates == pc = "page" ~> pc # "page"

PriorDates == {Prior[i].open_date : i \in 1..Len(Prior)} \ {""}

\* No page request of the run has been sent or answered.
NoPageRequest == offset = 0 /\ total = -1 /\ retry = 0 /\ ~exhausted

\* C16: fetch path selection.  In a run, the watermark is the largest
\* non-empty open_date of S and is absent when S has none (or there is no
\* snapshot); without a watermark no incremental query is sent and the run is
\* in the pagination from the start; with a watermark one incremental query
\* is sent, before any page request, and when it succeeded no page request is
\* sent and, the remote dataset unchanged, the records fetched are those with
\* an open_date strictly greater than the watermark.
C16_PathSelection ==
    pc # "idle" =>
        /\ latest_date = None <=> PriorDates = {}
        /\ latest_date # None =>
              /\ latest_date \in PriorDates
              /\ \A d \in PriorDates : Rank(d) <= Rank(latest_date)
        /\ latest_date = None =>
              /\ pc # "sql" /\ sql = "none" /\ sql_attempts = 0
        /\ latest_date # None =>
              /\ pc = "sql" => sql_attempts = 0 /\ NoPageRequest
              /\ pc # "sql" => sql_attempts = 1 /\ sql # "none"
        /\ sql = "ok" =>
              /\ NoPageRequest
              /\ stable /\ pc = "main" =>
                    /\ \A i \in 1..Len(new_records) :
                          /\ new_records[i].open_date # None
                          /\ Rank(new_records[i].open_date) > Rank(latest_date)
                    /\ \A i \in 1..Len(remote) :
                          (/\ remote[i].open_date # None
                           /\ Rank(remote[i].open_date) > Rank(latest_date))
                          => Count(new_records, remote[i]) = Count(remote, remote[i])

\* With the watermark at the earlier date, the incremental query returned the
\* record with the later date and left out the one at the watermark.
C16_Witness ==
    /\ sql = "ok" /\ pc = "main" /\ stable
    /\ latest_date = D1
    /\ Len(new_records) = 1
    /\ Len(remote) = 2

\* C17, as stated: every run that ends with status zero has rewritten the
\* snapshot file.
C17_Original == Done /\ exit_status = 0 => csv_writes = 1

\* C17, amended: a run that ends with status zero has rewritten the snapshot
\* file, once and in full (the file holds the sorted pre-sort rows), exactly
\* when its fetch returned a record; a run whose fetch is empty ends without
\* a call of write_csv, the file being what it was.
C17_Rewrite ==
    /\ csv_writes <= 1
    /\ Done /\ exit_status = 0 =>
          /\ csv_writes = 1 <=> new_records # <<>>
          /\ csv_writes = 1 =>
                /\ csv_exists
                /\ Len(csv_rows) = Len(PreSort)
                /\ \A d \in {"", D1, D2} :
                      WithDate(csv_rows, d) = WithDate(PreSort, d)
          /\ csv_writes = 0 =>
                csv_exists = before.csv_exists /\ csv_rows = before.csv_rows
    /\ csv_writes = 1 => Done /\ exit_status = 0

\* A run whose fetch held only records already in S rewrote the file, with a
\* changed row.
C17_Witness ==
    /\ Wrote /\ csv_writes = 1
    /\ FreshNotInPrior = {}
    /\ csv_rows # before.csv_rows

\* C18: metadata agrees with the snapshot.  After a run that ends with status
\* zero, on either path, total_records is the number of rows on disk and is
\* the row count of S plus new_records_added, and new_records_added is the
\* number of fresh records whose key is not in S: a record that updates rows
\* is not counted.
C18_Metadata ==
    Done /\ exit_status = 0 =>
        /\ meta_exists
        /\ meta.total_records = Len(csv_rows)
        /\ meta.total_records = Len(Prior) + meta.new_records_added
        /\ meta.new_records_added = Cardinality(FreshNotInPrior)

\* A run wrote with one fresh record that updated a row and one that was
\* appended.
C18_Witness ==
    /\ Wrote
    /\ Len(new_records) = 2
    /\ meta.new_records_added = 1
    /\ meta.total_records = 2

=============================================================================
